---- MODULE Spec2Model ----
(***************************************************************************)
(* A model of generate_readme_from_orcid.py: the linear pipeline           *)
(* fetch record -> per-group detail fetch -> extract -> sort -> render ->  *)
(* write, together with the field-extraction functions it calls.           *)
(*                                                                         *)
(* JSON values are tagged records [t, v]:                                  *)
(*   null  [t |-> "null"]         str  [t |-> "str",  v |-> <<chars>>]      *)
(*   num   [t |-> "num", v |-> n] list [t |-> "list", v |-> <<values>>]     *)
(*   obj   [t |-> "obj", v |-> function from keys to values]               *)
(* A Python exception leaving a function is the value Raise.               *)
(* Strings are sequences of one-character strings.                         *)
(***************************************************************************)
EXTENDS Integers, Sequences, FiniteSets, TLC

----------------------------------------------------------------------------
(* Python values *)

Null == [t |-> "null"]
Raise == [t |-> "raise"]
Str(s) == [t |-> "str", v |-> s]
Num(n) == [t |-> "num", v |-> n]
List(l) == [t |-> "list", v |-> l]
Obj(f) == [t |-> "obj", v |-> f]
EmptyStr == Str(<<>>)
EmptyList == List(<<>>)
EmptyObj == Obj([k \in {} |-> Null])

IsStr(x) == x.t = "str"
IsObj(x) == x.t = "obj"
IsList(x) == x.t = "list"

\* bool(x): None, '', 0, {} and [] are false
Truthy(x) ==
    CASE x.t = "null" -> FALSE
      [] x.t = "str" -> Len(x.v) > 0
      [] x.t = "num" -> x.v # 0
      [] x.t = "list" -> Len(x.v) > 0
      [] x.t = "obj" -> DOMAIN x.v # {}
      [] OTHER -> FALSE

\* d.get(k, dflt): AttributeError when d is not a dict
Get(d, k, dflt) ==
    IF d.t = "raise" THEN Raise
    ELSE IF d.t # "obj" THEN Raise
    ELSE IF k \in DOMAIN d.v THEN d.v[k] ELSE dflt

\* a or b
Or(a, b) ==
    IF a.t = "raise" THEN Raise
    ELSE IF Truthy(a) THEN a ELSE b

----------------------------------------------------------------------------
(* Python str methods, on sequences of characters *)

Whitespace == {" ", "\n", "\t", "\r"}

UpperChars == <<"A","B","C","D","E","F","G","H","I","J","K","L","M",
                "N","O","P","Q","R","S","T","U","V","W","X","Y","Z">>
LowerChars == <<"a","b","c","d","e","f","g","h","i","j","k","l","m",
                "n","o","p","q","r","s","t","u","v","w","x","y","z">>

LowerChar(c) ==
    IF \E i \in 1..Len(UpperChars) : UpperChars[i] = c
    THEN LowerChars[CHOOSE i \in 1..Len(UpperChars) : UpperChars[i] = c]
    ELSE c

\* s.lower()
StrLower(s) == [i \in 1..Len(s) |-> LowerChar(s[i])]

\* s.startswith(p)
StartsWith(s, p) == Len(s) >= Len(p) /\ SubSeq(s, 1, Len(p)) = p

\* p in s
Contains(s, p) ==
    \E i \in 0..(Len(s) - Len(p)) : SubSeq(s, i + 1, i + Len(p)) = p

RECURSIVE LStrip(_)
LStrip(s) == IF s # <<>> /\ s[1] \in Whitespace THEN LStrip(Tail(s)) ELSE s

RECURSIVE RStrip(_)
RStrip(s) ==
    IF s # <<>> /\ s[Len(s)] \in Whitespace
    THEN RStrip(SubSeq(s, 1, Len(s) - 1)) ELSE s

\* s.strip()
StrStrip(s) == RStrip(LStrip(s))

\* s.replace(old, new): leftmost non-overlapping occurrences (old non-empty)
RECURSIVE StrReplace(_, _, _)
StrReplace(s, old, new) ==
    IF Len(s) < Len(old) THEN s
    ELSE IF StartsWith(s, old)
         THEN new \o StrReplace(SubSeq(s, Len(old) + 1, Len(s)), old, new)
         ELSE <<s[1]>> \o StrReplace(Tail(s), old, new)

\* s.split(':', 1)[1] for s containing ':'
RECURSIVE AfterFirstColon(_)
AfterFirstColon(s) ==
    IF s = <<>> THEN <<>>
    ELSE IF s[1] = ":" THEN Tail(s) ELSE AfterFirstColon(Tail(s))

----------------------------------------------------------------------------
(* Field extraction *)

extract_title(work) ==
    IF ~Truthy(work) THEN EmptyStr
    ELSE Or(Get(Get(Or(Get(work, "title", EmptyObj), EmptyObj),
                    "title", EmptyObj),
                "value", Null),
            EmptyStr)

\* the iterable of a for loop: a non-empty value that is not a list either
\* is not iterable or yields keys or characters, on which .get raises
Iterable(x) ==
    IF x.t = "raise" THEN Raise
    ELSE IF x.t = "list" THEN x
    ELSE IF Truthy(x) THEN Raise ELSE EmptyList

\* the body of the loop of extract_contributors, over the entries cs
RECURSIVE ContribLoop(_, _)
ContribLoop(cs, contribs) ==
    IF cs = <<>> THEN List(contribs)
    ELSE LET name == Get(Or(Get(cs[1], "credit-name", Null), EmptyObj),
                         "value", Null)
         IN IF name.t = "raise" THEN Raise
            ELSE ContribLoop(Tail(cs),
                             IF Truthy(name) THEN Append(contribs, name)
                             ELSE contribs)

extract_contributors(work) ==
    IF ~Truthy(work) THEN EmptyList
    ELSE LET it == Iterable(Or(Get(Or(Get(work, "contributors", EmptyObj),
                                      EmptyObj),
                                   "contributor", EmptyList),
                               EmptyList))
         IN IF it.t = "raise" THEN Raise ELSE ContribLoop(it.v, <<>>)

extract_journal(work) ==
    IF ~Truthy(work) THEN EmptyStr
    ELSE LET jt == Get(Or(Get(work, "journal-title", Null), EmptyObj),
                       "value", Null)
         IN IF jt.t = "raise" THEN Raise
            ELSE IF Truthy(jt) THEN jt ELSE EmptyStr

\* (pd.get('year') or {}).get('value')
YearOf(pd) == Get(Or(Get(pd, "year", Null), EmptyObj), "value", Null)

extract_year(work, summary_ws) ==
    LET year == IF Truthy(work)
                THEN YearOf(Or(Get(work, "publication-date", Null), EmptyObj))
                ELSE Null
    IN IF year.t = "raise" THEN Raise
       ELSE IF Truthy(year) THEN year
       ELSE IF Truthy(summary_ws)
            THEN LET pd == IF IsObj(summary_ws)
                           THEN Or(Get(summary_ws, "publication-date", Null),
                                   EmptyObj)
                           ELSE EmptyObj
                 IN Or(YearOf(pd), EmptyStr)
            ELSE EmptyStr

DoiOrgHttps ==
    <<"h","t","t","p","s",":","/","/","d","o","i",".","o","r","g","/">>
DoiOrgHttp ==
    <<"h","t","t","p",":","/","/","d","o","i",".","o","r","g","/">>
DoiScheme == <<"d","o","i",":">>
DoiWord == <<"d","o","i">>

\* the normalization of a matching external-id value (a str)
NormalizeDoi(val) ==
    LET d1 == StrStrip(val)
        d2 == StrReplace(StrReplace(d1, DoiOrgHttps, <<>>), DoiOrgHttp, <<>>)
    IN IF StartsWith(d2, DoiScheme) THEN AfterFirstColon(d2) ELSE d2

\* the tuple (doi, url)
Pair(doi, url) == [t |-> "pair", doi |-> doi, url |-> url]

\* DoiStep keeping the first DOI found, as it keeps the first URL
DoiStepFirstWins(e, acc) ==
    LET ty == Or(Get(e, "external-id-type", Null), EmptyStr)
        val == Or(Get(e, "external-id-value", Null), EmptyStr)
    IN IF ty.t = "raise" \/ ~IsStr(ty) THEN Raise
       ELSE IF val.t = "raise" THEN Raise
       ELSE LET t == StrLower(ty.v)
                matches == t = DoiWord \/ Contains(t, DoiWord)
            IN IF matches /\ ~IsStr(val) THEN Raise
               ELSE LET doi == IF matches /\ ~Truthy(acc.doi)
                               THEN Str(NormalizeDoi(val.v))
                               ELSE acc.doi
                        url == IF ~Truthy(acc.url)
                               THEN Or(Get(Or(Get(e, "external-id-url", Null),
                                              EmptyObj),
                                           "value", Null),
                                       EmptyStr)
                               ELSE acc.url
                    IN IF url.t = "raise" THEN Raise
                       ELSE Pair(doi, url)

\* one iteration of the loop of extract_doi_and_url on entry e;
\* acc = (doi, url), the result is the next acc or Raise
DoiStep(e, acc) ==
    LET ty == Or(Get(e, "external-id-type", Null), EmptyStr)
        val == Or(Get(e, "external-id-value", Null), EmptyStr)
    IN IF ty.t = "raise" \/ ~IsStr(ty) THEN Raise
       ELSE IF val.t = "raise" THEN Raise
       ELSE LET t == StrLower(ty.v)
                matches == t = DoiWord \/ Contains(t, DoiWord)
            IN IF matches /\ ~IsStr(val) THEN Raise
               ELSE LET doi == IF matches THEN Str(NormalizeDoi(val.v))
                               ELSE acc.doi
                        url == IF ~Truthy(acc.url)
                               THEN Or(Get(Or(Get(e, "external-id-url", Null),
                                              EmptyObj),
                                           "value", Null),
                                       EmptyStr)
                               ELSE acc.url
                    IN IF url.t = "raise" THEN Raise
                       ELSE Pair(doi, url)

RECURSIVE DoiLoop(_, _)
DoiLoop(es, acc) ==
    IF es = <<>> THEN acc
    ELSE LET nxt == DoiStep(es[1], acc)
         IN IF nxt.t = "raise" THEN Raise ELSE DoiLoop(Tail(es), nxt)

extract_doi_and_url(work) ==
    IF ~Truthy(work) THEN Pair(EmptyStr, EmptyStr)
    ELSE LET ext == Or(Get(work, "external-ids", Null), EmptyObj)
             it == Iterable(Or(Get(ext, "external-id", EmptyList), EmptyList))
         IN IF it.t = "raise" THEN Raise
            ELSE LET r == DoiLoop(it.v, Pair(EmptyStr, EmptyStr))
                 IN IF r.t = "raise" THEN Raise
                    ELSE IF Truthy(r.url) THEN r
                    ELSE LET u == Or(Get(Or(Get(work, "url", Null), EmptyObj),
                                         "value", Null),
                                     EmptyStr)
                         IN IF u.t = "raise" THEN Raise
                            ELSE Pair(r.doi, u)

sanitize_markdown(text) ==
    IF text.t # "str" THEN EmptyStr
    ELSE Str(StrStrip(StrReplace(text.v, <<"\n">>, <<" ">>)))

\* the loop of dict_safe_get over keys; never raises
RECURSIVE SafeGetLoop(_, _, _)
SafeGetLoop(cur, keys, default) ==
    IF keys = <<>>
    THEN IF IsObj(cur) THEN default
         ELSE IF Truthy(cur) THEN cur ELSE default
    ELSE IF ~IsObj(cur) THEN default
    ELSE SafeGetLoop(Get(cur, keys[1], EmptyObj), Tail(keys), default)

dict_safe_get(d, keys, default) ==
    SafeGetLoop(IF IsObj(d) THEN d ELSE EmptyObj, keys, default)

----------------------------------------------------------------------------
(* Row assembly: the body of the loop of main after a successful fetch *)

NoTitle == <<"(","n","o"," ","t","i","t","l","e",")">>
DoiOrgUrl == DoiOrgHttps
CommaSpace == <<",", " ">>

\* ', '.join(authors): TypeError when an item is not a str
RECURSIVE JoinLoop(_, _)
JoinLoop(items, acc) ==
    IF items = <<>> THEN Str(acc)
    ELSE IF ~IsStr(items[1]) THEN Raise
    ELSE JoinLoop(Tail(items), acc \o CommaSpace \o items[1].v)

Join(items) ==
    IF items = <<>> THEN EmptyStr
    ELSE IF ~IsStr(items[1]) THEN Raise
    ELSE JoinLoop(Tail(items), items[1].v)

\* authors of a row: the detail's contributors, else the summary's author
RowAuthors(detailed, ws) ==
    LET authors == extract_contributors(detailed)
    IN IF authors.t = "raise" THEN Raise
       ELSE IF Truthy(authors) THEN authors
       ELSE LET author_str == Or(Or(Get(ws, "author", Null),
                                    Get(ws, "credit-name", Null)),
                                 EmptyStr)
            IN IF author_str.t = "raise" THEN Raise
               ELSE IF IsStr(author_str) /\ Truthy(author_str)
                    THEN List(<<author_str>>)
               ELSE authors

\* f"[{doi}](https://doi.org/{doi})" if doi else ''
DoiMd(doi) ==
    IF Truthy(doi)
    THEN Str(<<"[">> \o doi.v \o <<"]", "(">> \o DoiOrgUrl \o doi.v \o <<")">>)
    ELSE EmptyStr

\* the row appended for one work, or Raise
AssembleRow(detailed, ws) ==
    LET t0 == Or(Or(extract_title(detailed),
                    dict_safe_get(ws, <<"title", "title", "value">>, EmptyStr)),
                 dict_safe_get(ws, <<"title">>, EmptyStr))
        as == RowAuthors(detailed, ws)
        j0 == Or(extract_journal(detailed),
                 dict_safe_get(ws, <<"journal-title", "value">>, EmptyStr))
        year == extract_year(detailed, ws)
        dl == extract_doi_and_url(detailed)
    IN IF t0.t = "raise" \/ as.t = "raise" \/ j0.t = "raise"
          \/ year.t = "raise" \/ dl.t = "raise" THEN Raise
       ELSE LET authors_md == IF Truthy(as) THEN Join(as.v) ELSE EmptyStr
                title == sanitize_markdown(t0)
                link == IF ~Truthy(dl.url) /\ Truthy(dl.doi)
                        THEN Str(DoiOrgUrl \o dl.doi.v)
                        ELSE dl.url
            IN IF authors_md.t = "raise" THEN Raise
               ELSE [t |-> "row",
                     title |-> IF Truthy(title) THEN title ELSE Str(NoTitle),
                     authors |-> authors_md,
                     journal |-> sanitize_markdown(j0),
                     year |-> year,
                     doi |-> DoiMd(dl.doi),
                     link |-> link]

----------------------------------------------------------------------------
(* Sorting *)

Digits == <<"0","1","2","3","4","5","6","7","8","9">>
IsDigit(c) == \E d \in 1..10 : Digits[d] = c
DigitVal(c) == (CHOOSE d \in 1..10 : Digits[d] = c) - 1

RECURSIVE DigitsValue(_, _)
DigitsValue(s, acc) ==
    IF s = <<>> THEN acc
    ELSE IF s[1] = "_" THEN DigitsValue(Tail(s), acc)
    ELSE DigitsValue(Tail(s), 10 * acc + DigitVal(s[1]))

\* digits, single underscores allowed between digits
IsIntBody(s) ==
    /\ s # <<>>
    /\ \A k \in 1..Len(s) : IsDigit(s[k]) \/ s[k] = "_"
    /\ IsDigit(s[1]) /\ IsDigit(s[Len(s)])
    /\ \A k \in 1..(Len(s) - 1) : ~(s[k] = "_" /\ s[k + 1] = "_")

\* int(x) for a str x: [ok, n]; ok = FALSE is ValueError
ParseInt(x) ==
    LET s == StrStrip(x)
        signed == s # <<>> /\ s[1] \in {"+", "-"}
        body == IF signed THEN Tail(s) ELSE s
    IN IF IsIntBody(body)
       THEN [ok |-> TRUE,
             n |-> IF signed /\ s[1] = "-" THEN 0 - DigitsValue(body, 0)
                   ELSE DigitsValue(body, 0)]
       ELSE [ok |-> FALSE, n |-> 0]

\* int(r.get('year') or 0), any exception giving 0
sort_key(r) ==
    LET y == r.year
    IN IF ~Truthy(y) THEN 0
       ELSE IF y.t = "num" THEN y.v
       ELSE IF y.t = "str" THEN (IF ParseInt(y.v).ok THEN ParseInt(y.v).n ELSE 0)
       ELSE 0

Reverse(s) == [k \in 1..Len(s) |-> s[Len(s) + 1 - k]]

\* insert r after the entries of the sorted list whose key is <= its own
RECURSIVE InsertAsc(_, _)
InsertAsc(sorted, r) ==
    IF sorted = <<>> THEN <<r>>
    ELSE IF sort_key(sorted[1]) <= sort_key(r)
         THEN <<sorted[1]>> \o InsertAsc(Tail(sorted), r)
         ELSE <<r>> \o sorted

\* a stable ascending sort by sort_key
RECURSIVE StableSortAsc(_)
StableSortAsc(rs) ==
    IF rs = <<>> THEN <<>>
    ELSE InsertAsc(StableSortAsc(SubSeq(rs, 1, Len(rs) - 1)), rs[Len(rs)])

\* SortRows as an ascending sort whose result is reversed
SortAscThenReverse(rs) == Reverse(StableSortAsc(rs))

\* rows.sort(key=sort_key, reverse=True): list.sort reverses the list,
\* sorts it stably in ascending order and reverses the result
SortRows(rs) == Reverse(StableSortAsc(Reverse(rs)))

----------------------------------------------------------------------------
(* Rendering *)

RECURSIVE NatToStr(_)
NatToStr(n) ==
    IF n < 10 THEN <<Digits[n + 1]>>
    ELSE NatToStr(n \div 10) \o <<Digits[(n % 10) + 1]>>

\* str(x) inside an f-string, for str and int values
Format(x) ==
    IF x.t = "str" THEN x.v
    ELSE IF x.t = "num"
         THEN (IF x.v < 0 THEN <<"-">> \o NatToStr(0 - x.v) ELSE NatToStr(x.v))
    ELSE <<>>

EscapePipes(s) == StrReplace(s, <<"|">>, <<"\\", "|">>)

\* one table line of md_lines
RenderRow(r) ==
    LET title == EscapePipes(r.title.v)
        authors == EscapePipes(r.authors.v)
        journal == EscapePipes(r.journal.v)
        year == IF Truthy(r.year) THEN Format(r.year) ELSE <<>>
        doi == r.doi.v
        link == IF Truthy(r.link)
                THEN <<"[","l","i","n","k","]","(">> \o Format(r.link) \o <<")">>
                ELSE <<>>
    IN <<"|", " ">> \o title \o <<" ", "|", " ">> \o authors
       \o <<" ", "|", " ">> \o journal \o <<" ", "|", " ">> \o year
       \o <<" ", "|", " ">> \o doi \o <<" ", "|", " ">> \o link \o <<" ", "|">>

\* the table lines of the document; its fixed header and trailer lines
\* are the same in every run and are left out
RenderRows(rs) == [k \in 1..Len(rs) |-> RenderRow(rs[k])]

----------------------------------------------------------------------------
(* The inputs of a run: what the two endpoints may answer *)

MaxGroups == 3

ValueOf(s) == Obj("value" :> Str(s))

\* work summaries: with fallback fields, bare, and without a put-code
SummaryFull ==
    Obj("put-code" :> Num(1)
        @@ "title" :> Obj("title" :> ValueOf(<<"S">>))
        @@ "journal-title" :> ValueOf(<<"V">>)
        @@ "publication-date" :> Obj("year" :> ValueOf(<<"2","0","1","9">>)))
SummaryBare == Obj("put-code" :> Num(2))
SummaryNoCode ==
    Obj("put-code" :> Null @@ "title" :> Obj("title" :> ValueOf(<<"N">>)))

GroupOf(summaries) == Obj("work-summary" :> List(summaries))

Groups ==
    { GroupOf(<<>>),
      Obj("work-summary" :> Null),
      GroupOf(<<SummaryFull>>),
      GroupOf(<<SummaryBare, SummaryFull>>),
      GroupOf(<<SummaryNoCode, SummaryFull>>),
      GroupOf(<<Null, SummaryFull>>) }

\* the bodies the work endpoint may return
DetailFull ==
    Obj("title" :> Obj("title" :> ValueOf(<<"A">>))
        @@ "contributors" :>
             Obj("contributor" :> List(<<Obj("credit-name" :> ValueOf(<<"J">>))>>))
        @@ "journal-title" :> ValueOf(<<"X">>)
        @@ "publication-date" :> Obj("year" :> ValueOf(<<"2","0","2","0">>))
        @@ "external-ids" :>
             Obj("external-id" :>
                   List(<<Obj("external-id-type" :> Str(<<"d","o","i">>)
                              @@ "external-id-value" :> Str(<<"1","0",".","1">>))>>)))
DetailInnerTitleNull == Obj("title" :> Obj("title" :> Null))
DetailBlank ==
    Obj("title" :> Obj("title" :> ValueOf(<<" ", "\n">>))
        @@ "publication-date" :> Obj("year" :> ValueOf(<<" ","2","0","2","1","\n">>))
        @@ "url" :> ValueOf(<<" ","u">>))
DetailNumYear ==
    Obj("title" :> Null
        @@ "publication-date" :> Obj("year" :> Obj("value" :> Num(2022))))

Details == {DetailFull, Null, DetailInnerTitleNull, DetailBlank, DetailNumYear}

RECURSIVE SeqsUpTo(_, _)
SeqsUpTo(S, n) ==
    IF n = 0 THEN {<<>>}
    ELSE LET shorter == SeqsUpTo(S, n - 1)
         IN shorter \cup {Append(q, x) : q \in {r \in shorter : Len(r) = n - 1},
                                         x \in S}

RecordOf(gs) ==
    Obj("activities-summary" :> Obj("works" :> Obj("group" :> List(gs))))

Records ==
    {RecordOf(gs) : gs \in SeqsUpTo(Groups, MaxGroups)}
    \cup {Obj("activities-summary" :> Null)}

----------------------------------------------------------------------------
(* The run of main *)

VARIABLES
    pc,           \* where main is
    groups_list,  \* the groups of the fetched record
    i,            \* the position of the loop in groups_list (from 1)
    ws,           \* the first summary of the current group
    put_code,     \* its put-code
    detailed,     \* the fetched detail of the current group
    rows,         \* the rows assembled so far
    file,         \* the output file: NoFile, or File of its table lines
    exitCode,     \* the exit status: Running until the process ends
    stderr,       \* the messages written to standard error
    recordFetch,  \* history: the outcome of the record request
    log,          \* history: the detail requests and pacing sleeps, in order
    rowSrc,       \* history: for each assembled row, the position of its group
    fin,          \* the input of a function application
    fout,         \* the results of the function applications
    fpc           \* which functions have been applied

vars == <<pc, groups_list, i, ws, put_code, detailed, rows, file, exitCode,
          stderr, recordFetch, log, rowSrc, fin, fout, fpc>>
mainVars == <<pc, groups_list, i, ws, put_code, detailed, rows, file, exitCode,
              stderr, recordFetch, log, rowSrc>>
fnVars == <<fin, fout, fpc>>

NoFile == [t |-> "nofile", lines |-> <<>>]
File(lines) == [t |-> "file", lines |-> lines]
Running == -1
\* history records: a detail request for group g with its put-code, outcome
\* and returned body; a pacing sleep in the iteration of group g
Request(g, code, ok, body) ==
    [e |-> "request", g |-> g, code |-> code, ok |-> ok, body |-> body]
Slept(g) == [e |-> "sleep", g |-> g, code |-> Null, ok |-> TRUE, body |-> Null]

MainInit ==
    /\ pc = "start"
    /\ groups_list = <<>>
    /\ i = 0
    /\ ws = Null
    /\ put_code = Null
    /\ detailed = Null
    /\ rows = <<>>
    /\ file = NoFile
    /\ exitCode = Running
    /\ stderr = <<>>
    /\ recordFetch = "none"
    /\ log = <<>>
    /\ rowSrc = <<>>

FnIdle ==
    /\ fin = Null
    /\ fout = <<>>
    /\ fpc = "idle"

Init == MainInit /\ FnIdle

\* an exception nobody catches: the traceback goes to standard error and
\* the interpreter exits with status 1
Uncaught ==
    /\ pc' = "done"
    /\ exitCode' = 1
    /\ stderr' = Append(stderr, "traceback")

\* record.get('activities-summary', {}) ... .get('group', []) or []
GroupsOf(record) ==
    LET groups == Or(Get(Or(Get(record, "activities-summary", EmptyObj),
                            EmptyObj),
                         "works", EmptyObj),
                     EmptyObj)
    IN Or(Get(groups, "group", EmptyList), EmptyList)

\* FetchRecordFail without its sys.exit(1): main goes on with no groups
FetchRecordFailNoExit ==
    /\ UNCHANGED fnVars
    /\ pc = "start"
    /\ pc' = "loop"
    /\ i' = 1
    /\ stderr' = Append(stderr, "Failed to fetch ORCID record")
    /\ recordFetch' = "failed"
    /\ UNCHANGED <<groups_list, ws, put_code, detailed, rows, file, exitCode,
                   log, rowSrc>>

\* fetch_json(base_record_url) raises: report and sys.exit(1)
FetchRecordFail ==
    /\ UNCHANGED fnVars
    /\ pc = "start"
    /\ pc' = "done"
    /\ exitCode' = 1
    /\ stderr' = Append(stderr, "Failed to fetch ORCID record")
    /\ recordFetch' = "failed"
    /\ UNCHANGED <<groups_list, i, ws, put_code, detailed, rows, file, log,
                   rowSrc>>

\* fetch_json(base_record_url) returns a record
FetchRecordOk ==
    /\ UNCHANGED fnVars
    /\ pc = "start"
    /\ \E record \in Records :
         LET gl == GroupsOf(record)
         IN /\ recordFetch' = "ok"
            /\ IF gl.t # "list"
               THEN Uncaught /\ UNCHANGED <<groups_list, i>>
               ELSE /\ groups_list' = gl.v
                    /\ i' = 1
                    /\ pc' = "loop"
                    /\ UNCHANGED <<exitCode, stderr>>
    /\ UNCHANGED <<ws, put_code, detailed, rows, file, log, rowSrc>>

\* FirstSummary taking the last summary: work_summaries[-1] or {}
LastSummary(work_summaries) == Or(work_summaries[Len(work_summaries)], EmptyObj)

\* work_summaries[0] or {}
FirstSummary(work_summaries) == Or(work_summaries[1], EmptyObj)

\* the head of one iteration: the group is skipped, or its work is fetched
LoopGroup ==
    /\ UNCHANGED fnVars
    /\ pc = "loop"
    /\ i <= Len(groups_list)
    /\ LET work_summaries ==
               Or(Get(groups_list[i], "work-summary", Null), EmptyList)
       IN IF work_summaries.t # "list"
          THEN Uncaught /\ UNCHANGED <<i, ws, put_code>>
          ELSE IF ~Truthy(work_summaries)
          THEN /\ i' = i + 1
               /\ UNCHANGED <<pc, ws, put_code, exitCode, stderr>>
          ELSE LET s == FirstSummary(work_summaries.v)
                   code == Get(s, "put-code", Null)
               IN IF code.t = "raise"
                  THEN Uncaught /\ UNCHANGED <<i, ws, put_code>>
                  ELSE IF code = Null
                  THEN /\ i' = i + 1
                       /\ UNCHANGED <<pc, ws, put_code, exitCode, stderr>>
                  ELSE /\ ws' = s
                       /\ put_code' = code
                       /\ pc' = "fetch"
                       /\ UNCHANGED <<i, exitCode, stderr>>
    /\ UNCHANGED <<groups_list, detailed, rows, file, recordFetch, log, rowSrc>>

\* fetch_json(work_url) raises: warn and continue with the next group
FetchDetailFail ==
    /\ UNCHANGED fnVars
    /\ pc = "fetch"
    /\ log' = Append(log, Request(i, put_code, FALSE, Null))
    /\ stderr' = Append(stderr, "Warning: failed to fetch work")
    /\ i' = i + 1
    /\ pc' = "loop"
    /\ UNCHANGED <<groups_list, ws, put_code, detailed, rows, file, exitCode,
                   recordFetch, rowSrc>>

\* detailed = fetch_json(work_url) or {}
FetchDetailOk ==
    /\ UNCHANGED fnVars
    /\ pc = "fetch"
    /\ \E body \in Details :
         /\ detailed' = Or(body, EmptyObj)
         /\ log' = Append(log, Request(i, put_code, TRUE, body))
    /\ pc' = "assemble"
    /\ UNCHANGED <<groups_list, i, ws, put_code, rows, file, exitCode, stderr,
                   recordFetch, rowSrc>>

\* the extraction and rows.append
Assemble ==
    /\ UNCHANGED fnVars
    /\ pc = "assemble"
    /\ LET row == AssembleRow(detailed, ws)
       IN IF row.t = "raise"
          THEN Uncaught /\ UNCHANGED <<rows, rowSrc>>
          ELSE /\ rows' = Append(rows, row)
               /\ rowSrc' = Append(rowSrc, i)
               /\ pc' = "sleep"
               /\ UNCHANGED <<exitCode, stderr>>
    /\ UNCHANGED <<groups_list, i, ws, put_code, detailed, file, recordFetch,
                   log>>

\* time.sleep(args.sleep), the last statement of the loop body
Sleep ==
    /\ UNCHANGED fnVars
    /\ pc = "sleep"
    /\ log' = Append(log, Slept(i))
    /\ i' = i + 1
    /\ pc' = "loop"
    /\ UNCHANGED <<groups_list, ws, put_code, detailed, rows, file, exitCode,
                   stderr, recordFetch, rowSrc>>

\* the loop is over: rows.sort(key=sort_key, reverse=True)
Sort ==
    /\ UNCHANGED fnVars
    /\ pc = "loop"
    /\ i > Len(groups_list)
    /\ rows' = SortRows(rows)
    /\ pc' = "render"
    /\ UNCHANGED <<groups_list, i, ws, put_code, detailed, file, exitCode,
                   stderr, recordFetch, log, rowSrc>>

\* the document is rendered and written; main returns
WriteFile ==
    /\ UNCHANGED fnVars
    /\ pc = "render"
    /\ file' = File(RenderRows(rows))
    /\ exitCode' = 0
    /\ pc' = "done"
    /\ UNCHANGED <<groups_list, i, ws, put_code, detailed, rows, stderr,
                   recordFetch, log, rowSrc>>

Next ==
    \/ FetchRecordFail
    \/ FetchRecordOk
    \/ LoopGroup
    \/ FetchDetailFail
    \/ FetchDetailOk
    \/ Assemble
    \/ Sleep
    \/ Sort
    \/ WriteFile

Spec == Init /\ [][Next]_vars

----------------------------------------------------------------------------
(* Properties of the run *)

Requests == {k \in 1..Len(log) : log[k].e = "request"}
RequestsOf(g) == {k \in Requests : log[k].g = g}
RowsOf(g) == {j \in 1..Len(rowSrc) : rowSrc[j] = g}

\* C1: when the record fetch fails the run is over with exit code 1, and
\* in no state of that run has a work-detail request been issued or the
\* output file been written.
C1_RecordFailureIsFatal ==
    recordFetch = "failed" =>
        /\ pc = "done"
        /\ exitCode = 1
        /\ Requests = {}
        /\ file = NoFile

C1_Witness == recordFetch = "failed" /\ pc = "done" /\ stderr # <<>>

\* C2: after a successful record fetch the run always ends with exit code
\* 0 and the file written, every group having been processed; a failing
\* group adds no row and no detail request is repeated.
C2_DetailFailuresNeverFatal ==
    (recordFetch = "ok" /\ pc = "done") =>
        /\ exitCode = 0
        /\ file.t = "file"
        /\ i = Len(groups_list) + 1
        /\ \A g \in 1..Len(groups_list) :
             /\ Cardinality(RequestsOf(g)) <= 1
             /\ (\E k \in RequestsOf(g) : ~log[k].ok) => RowsOf(g) = {}

\* C3: between two consecutive work-detail requests there is exactly one
\* pacing sleep, whether the earlier request succeeded or failed.
C3_SleepBetweenRequests ==
    \A p, q \in Requests :
        (p < q /\ \A k \in (p + 1)..(q - 1) : k \notin Requests) =>
            (q = p + 2 /\ log[p + 1].e = "sleep")

\* the first summary of group g has a put-code that is not null
FirstHasPutCode(g) ==
    /\ "work-summary" \in DOMAIN g.v
    /\ g.v["work-summary"].t = "list"
    /\ Len(g.v["work-summary"].v) > 0
    /\ LET first == g.v["work-summary"].v[1]
       IN /\ first.t = "obj"
          /\ "put-code" \in DOMAIN first.v
          /\ first.v["put-code"] # Null

\* the groups whose iteration is over
Completed == IF pc = "start" \/ recordFetch # "ok" THEN {} ELSE 1..(i - 1)

Sanitized(x) ==
    /\ x.t = "str"
    /\ \A k \in 1..Len(x.v) : x.v[k] # "\n"
    /\ x.v # <<>> => (x.v[1] \notin Whitespace /\ x.v[Len(x.v)] \notin Whitespace)

\* C8: every field of every assembled row is a sanitized str (a value
\* that is not a str having become the empty str).
C8_RowFieldsSanitized ==
    \A j \in 1..Len(rows) :
        /\ Sanitized(rows[j].title)
        /\ Sanitized(rows[j].authors)
        /\ Sanitized(rows[j].journal)
        /\ Sanitized(rows[j].year)
        /\ Sanitized(rows[j].doi)
        /\ Sanitized(rows[j].link)

\* the value under the keys of path when every level on the way is a
\* mapping holding the next key, otherwise the empty str
RECURSIVE AtPath(_, _)
AtPath(x, path) ==
    IF path = <<>> THEN (IF x.t = "null" THEN EmptyStr ELSE x)
    ELSE IF x.t = "obj" /\ path[1] \in DOMAIN x.v
         THEN AtPath(x.v[path[1]], Tail(path))
         ELSE EmptyStr

\* the detail's value when non-empty, else the summary's, else dflt
DetailElseSummary(detail, summary, path, dflt) ==
    IF AtPath(detail, path) # EmptyStr THEN AtPath(detail, path)
    ELSE IF AtPath(summary, path) # EmptyStr THEN AtPath(summary, path)
    ELSE dflt

\* rows is still in assembly order, rowSrc[j] being the group of rows[j]
Unsorted ==
    pc \in {"loop", "fetch", "assemble", "sleep"} \/ (pc = "done" /\ exitCode = 1)

\* the successful requests whose work has gone through the assembly step
Assembled ==
    {k \in Requests :
        log[k].ok /\ (log[k].g < i \/ (log[k].g = i /\ pc \in {"sleep", "done"}))}

\* C9: every fetched work has a row whose title, venue and year are the
\* detail's value when non-empty, else the first summary's, else empty
\* (the title then being the placeholder).
C9_DetailThenSummary ==
    Unsorted =>
    \A k \in Assembled :
        \E j \in RowsOf(log[k].g) :
            LET summary == groups_list[log[k].g].v["work-summary"].v[1]
                detail == log[k].body
            IN /\ rows[j].title =
                    DetailElseSummary(detail, summary,
                                      <<"title", "title", "value">>, Str(NoTitle))
               /\ rows[j].journal =
                    DetailElseSummary(detail, summary,
                                      <<"journal-title", "value">>, EmptyStr)
               /\ rows[j].year =
                    DetailElseSummary(detail, summary,
                                      <<"publication-date", "year", "value">>,
                                      EmptyStr)

----------------------------------------------------------------------------
(* The extraction functions applied to partially populated details *)

NotRun == [t |-> "notrun"]

\* what may stand where a mapping with a 'value' is expected
ValueShapes ==
    { Null, EmptyObj, Obj("value" :> Null), ValueOf(<<>>), ValueOf(<<"A">>),
      Obj("value" :> Num(7)), Str(<<"s">>), List(<<Str(<<"s">>)>>) }

\* what may stand where a list of mappings is expected
EntryLists(key, shapes) ==
    { Null, EmptyObj, Obj(key :> Null), Obj(key :> EmptyList),
      Str(<<"s">>), Obj(key :> Str(<<"s">>)) }
    \cup {Obj(key :> List(<<e>>)) : e \in shapes}

ContributorShapes ==
    { Null, EmptyObj, Str(<<"s">>), Obj("credit-name" :> Null),
      Obj("credit-name" :> ValueOf(<<"J">>)),
      Obj("credit-name" :> Obj("value" :> Num(7))) }

ExternalIdShapes ==
    { Null, EmptyObj, Str(<<"s">>),
      Obj("external-id-type" :> Null),
      Obj("external-id-type" :> Num(7)),
      Obj("external-id-type" :> Str(<<"d","o","i">>)),
      Obj("external-id-type" :> Str(<<"d","o","i">>)
          @@ "external-id-value" :> Num(7)),
      Obj("external-id-type" :> Str(<<"d","o","i">>)
          @@ "external-id-value" :> Str(<<"1","0",".","1">>)
          @@ "external-id-url" :> Null),
      Obj("external-id-type" :> Str(<<"e","i","d">>)
          @@ "external-id-url" :> Str(<<"s">>)) }

\* details in which one field is missing, null, of another shape, or there
ExtractWorks ==
    {Null, EmptyObj, DetailFull}
    \cup {Obj("title" :> x) : x \in {Null, EmptyObj, Str(<<"s">>)}}
    \cup {Obj("title" :> Obj("title" :> x)) : x \in ValueShapes}
    \cup {Obj("contributors" :> x) :
            x \in EntryLists("contributor", ContributorShapes)}
    \cup {Obj("journal-title" :> x) : x \in ValueShapes}
    \cup {Obj("publication-date" :> x) : x \in {Null, EmptyObj, Str(<<"s">>)}}
    \cup {Obj("publication-date" :> Obj("year" :> x)) : x \in ValueShapes}
    \cup {Obj("external-ids" :> x) :
            x \in EntryLists("external-id", ExternalIdShapes)}
    \cup {Obj("url" :> x) : x \in ValueShapes}

ExtractSummaries == {Null, SummaryFull, SummaryBare}

Extractors == {"title", "contributors", "journal", "year", "doi_and_url"}

InitExtract ==
    /\ MainInit
    /\ fin \in [work : ExtractWorks, summary : ExtractSummaries]
    /\ fout = [f \in Extractors |-> NotRun]
    /\ fpc = "extract"

ApplyTitle ==
    /\ fpc = "extract"
    /\ fout["title"] = NotRun
    /\ fout' = [fout EXCEPT !["title"] = extract_title(fin.work)]
    /\ UNCHANGED <<fin, fpc>>
    /\ UNCHANGED mainVars

ApplyContributors ==
    /\ fpc = "extract"
    /\ fout["contributors"] = NotRun
    /\ fout' = [fout EXCEPT !["contributors"] = extract_contributors(fin.work)]
    /\ UNCHANGED <<fin, fpc>>
    /\ UNCHANGED mainVars

ApplyJournal ==
    /\ fpc = "extract"
    /\ fout["journal"] = NotRun
    /\ fout' = [fout EXCEPT !["journal"] = extract_journal(fin.work)]
    /\ UNCHANGED <<fin, fpc>>
    /\ UNCHANGED mainVars

ApplyYear ==
    /\ fpc = "extract"
    /\ fout["year"] = NotRun
    /\ fout' = [fout EXCEPT !["year"] = extract_year(fin.work, fin.summary)]
    /\ UNCHANGED <<fin, fpc>>
    /\ UNCHANGED mainVars

ApplyDoiAndUrl ==
    /\ fpc = "extract"
    /\ fout["doi_and_url"] = NotRun
    /\ fout' = [fout EXCEPT !["doi_and_url"] = extract_doi_and_url(fin.work)]
    /\ UNCHANGED <<fin, fpc>>
    /\ UNCHANGED mainVars

NextExtract ==
    \/ ApplyTitle
    \/ ApplyContributors
    \/ ApplyJournal
    \/ ApplyYear
    \/ ApplyDoiAndUrl

SpecExtract == InitExtract /\ [][NextExtract]_vars

\* C5: no extraction function raises, and where the path to a field is
\* not there the function returns its empty default.
C5_ExtractorsTotal ==
    fpc = "extract" =>
        /\ \A f \in Extractors : fout[f].t # "raise"
        /\ (fout["title"] # NotRun
              /\ AtPath(fin.work, <<"title", "title", "value">>) = EmptyStr)
             => fout["title"] = EmptyStr
        /\ (fout["journal"] # NotRun
              /\ AtPath(fin.work, <<"journal-title", "value">>) = EmptyStr)
             => fout["journal"] = EmptyStr
        /\ (fout["contributors"] # NotRun
              /\ AtPath(fin.work, <<"contributors", "contributor">>).t # "list")
             => fout["contributors"] = EmptyList
        /\ (fout["doi_and_url"] # NotRun
              /\ AtPath(fin.work, <<"external-ids", "external-id">>).t # "list"
              /\ AtPath(fin.work, <<"url", "value">>) = EmptyStr)
             => fout["doi_and_url"] = Pair(EmptyStr, EmptyStr)

----------------------------------------------------------------------------
(* DOI and link extraction applied to external-id lists *)

MaxIds == 2
MaxParts == 2

IdTypes == {<<"d","o","i">>, <<"x","-","D","o","I">>, <<"e","i","d">>}
IdValues == {<<>>, <<"a">>, <<"b">>}
IdUrls == {<<>>, <<"u">>, <<"w">>}

ExternalId(ty, val, url) ==
    Obj("external-id-type" :> Str(ty)
        @@ "external-id-value" :> Str(val)
        @@ "external-id-url" :> ValueOf(url))

ExternalIds ==
    {ExternalId(ty, val, url) : ty \in IdTypes, val \in IdValues, url \in IdUrls}
    \cup {Obj("external-id-type" :> Num(7))}

WorkWithIds(es, url) ==
    Obj("external-ids" :> Obj("external-id" :> List(es)) @@ "url" :> ValueOf(url))

\* the pieces a DOI value is written with
DoiParts == {DoiOrgHttps, DoiOrgHttp, DoiScheme, <<" ">>, <<"1","0",".","1">>}

RECURSIVE Concat(_)
Concat(parts) == IF parts = <<>> THEN <<>> ELSE parts[1] \o Concat(Tail(parts))

DoiValues == {Concat(parts) : parts \in SeqsUpTo(DoiParts, MaxParts)}

WorkWithDoi(val) == WorkWithIds(<<ExternalId(DoiWord, val, <<>>)>>, <<>>)

DoiWorks ==
    {WorkWithIds(es, url) : es \in SeqsUpTo(ExternalIds, MaxIds),
                            url \in {<<>>, <<"d">>}}
    \cup {WorkWithDoi(val) : val \in DoiValues}

InitDoi ==
    /\ MainInit
    /\ fin \in DoiWorks
    /\ fout = [pair |-> NotRun, row |-> NotRun, again |-> NotRun]
    /\ fpc = "extract"

\* doi, link = extract_doi_and_url(detailed)
ExtractDoiAndUrl ==
    /\ fpc = "extract"
    /\ fout' = [fout EXCEPT !.pair = extract_doi_and_url(fin)]
    /\ fpc' = "extracted"
    /\ UNCHANGED fin
    /\ UNCHANGED mainVars

\* the row main builds from the same detail
AssembleFromDetail ==
    /\ fpc = "extracted"
    /\ fout.row.t = "notrun"
    /\ fout' = [fout EXCEPT !.row = AssembleRow(fin, SummaryBare)]
    /\ UNCHANGED <<fin, fpc>>
    /\ UNCHANGED mainVars

\* the extracted DOI put through extraction once more
ExtractDoiAgain ==
    /\ fpc = "extracted"
    /\ fout.pair.t = "pair"
    /\ fout.again.t = "notrun"
    /\ fout' = [fout EXCEPT
                  !.again = extract_doi_and_url(WorkWithDoi(fout.pair.doi.v))]
    /\ UNCHANGED <<fin, fpc>>
    /\ UNCHANGED mainVars

NextDoi ==
    \/ ExtractDoiAndUrl
    \/ AssembleFromDetail
    \/ ExtractDoiAgain

SpecDoi == InitDoi /\ [][NextDoi]_vars

\* the entries of the external-id list of the work extraction was given
IdList == fin.v["external-ids"].v["external-id"].v
DoiEntries ==
    {k \in 1..Len(IdList) :
        Contains(StrLower(IdList[k].v["external-id-type"].v), DoiWord)}
UrlEntries ==
    {k \in 1..Len(IdList) : IdList[k].v["external-id-url"].v["value"].v # <<>>}
Last(S) == CHOOSE k \in S : \A m \in S : m <= k
First(S) == CHOOSE k \in S : \A m \in S : k <= m

\* a value with nothing to strip: no surrounding whitespace, neither
\* doi.org prefix in it, no leading doi:
BareDoi(val) ==
    /\ val = StrStrip(val)
    /\ ~Contains(val, DoiOrgHttps)
    /\ ~Contains(val, DoiOrgHttp)
    /\ ~StartsWith(val, DoiScheme)

\* C7: normalizing a normalized DOI gives the same string again, and a
\* DOI with no prefix is returned unchanged.
C7_DoiNormalizationIdempotent ==
    /\ fout.again.t = "pair" => fout.again.doi = fout.pair.doi
    /\ (fout.pair.t = "pair" /\ Len(IdList) = 1 /\ DoiEntries = {1}
          /\ BareDoi(IdList[1].v["external-id-value"].v))
         => fout.pair.doi = IdList[1].v["external-id-value"]

\* C10: the DOI is that of the last entry whose type contains "doi" in
\* any case, also when its value is empty; the link is the URL of the
\* first entry with a non-empty URL, else the detail's own URL, else
\* https://doi.org/<doi> when there is a DOI.
C10_LastDoiFirstLink ==
    (fout.pair.t = "pair" /\ fout.row.t = "row") =>
        LET doi == IF DoiEntries = {} THEN <<>>
                   ELSE NormalizeDoi(
                          IdList[Last(DoiEntries)].v["external-id-value"].v)
            own == fin.v["url"].v["value"].v
            url == IF UrlEntries # {}
                   THEN IdList[First(UrlEntries)].v["external-id-url"].v["value"].v
                   ELSE own
        IN /\ fout.pair.doi = Str(doi)
           /\ fout.pair.url = Str(url)
           /\ fout.row.link =
                Str(IF url # <<>> THEN url
                    ELSE IF doi # <<>> THEN DoiOrgHttps \o doi ELSE <<>>)

\* two DOI entries, the later with an empty value, and two entry URLs
C10_Witness ==
    /\ fout.pair.t = "pair" /\ fout.row.t = "row"
    /\ Len(IdList) = 2
    /\ DoiEntries = {1, 2}
    /\ IdList[1].v["external-id-value"].v = <<"a">>
    /\ IdList[2].v["external-id-value"].v = <<>>
    /\ IdList[2].v["external-id-type"].v # DoiWord
    /\ UrlEntries = {1, 2}
    /\ IdList[1].v["external-id-url"] # IdList[2].v["external-id-url"]
    /\ fout.pair.doi = EmptyStr
    /\ fout.row.link = IdList[1].v["external-id-url"].v["value"]

\* a DOI entry and neither an entry URL nor a URL of the detail
C10_WitnessSynthesized ==
    /\ fout.row.t = "row"
    /\ DoiEntries # {} /\ UrlEntries = {}
    /\ fout.pair.url = EmptyStr
    /\ fout.row.link = Str(DoiOrgHttps \o <<"b">>)

----------------------------------------------------------------------------
(* Sorting and rendering applied to assembled rows *)

MaxRows == 3

SortYears ==
    { Str(<<"2","0","2","0">>), EmptyStr, Str(<<"n",".","d",".">>),
      Str(<<"-","1">>), Str(<<"0">>), Num(2021) }
SortTitles == {<<"A">>, <<"B">>}

RowOf(title, year) ==
    [t |-> "row", title |-> Str(title), authors |-> EmptyStr,
     journal |-> EmptyStr, year |-> year, doi |-> EmptyStr, link |-> EmptyStr]

SortInputs == {RowOf(title, year) : title \in SortTitles, year \in SortYears}

InitSort ==
    /\ MainInit
    /\ fin \in SeqsUpTo(SortInputs, MaxRows)
    /\ fout = [sorted |-> <<>>, lines |-> <<>>]
    /\ fpc = "sort"

\* rows.sort(key=sort_key, reverse=True)
SortAssembled ==
    /\ fpc = "sort"
    /\ fout' = [fout EXCEPT !.sorted = SortRows(fin)]
    /\ fpc' = "render"
    /\ UNCHANGED fin
    /\ UNCHANGED mainVars

\* the table lines, in the order of the sorted rows
RenderSorted ==
    /\ fpc = "render"
    /\ fout' = [fout EXCEPT !.lines = RenderRows(fout.sorted)]
    /\ fpc' = "rendered"
    /\ UNCHANGED fin
    /\ UNCHANGED mainVars

NextSort ==
    \/ SortAssembled
    \/ RenderSorted

SpecSort == InitSort /\ [][NextSort]_vars

\* the year of a row as an integer; Unparsable when int() has none
Unparsable(r) ==
    \/ ~Truthy(r.year)
    \/ r.year.t = "str" /\ ~ParseInt(r.year.v).ok
YearInt(r) ==
    IF Unparsable(r) THEN 0
    ELSE IF r.year.t = "num" THEN r.year.v ELSE ParseInt(r.year.v).n

Reorderings(n) ==
    {p \in [1..n -> 1..n] : \A a, b \in 1..n : p[a] = p[b] => a = b}

\* out is rs reordered by descending year, equal years in the order of rs
StablyDescending(rs, out) ==
    /\ Len(out) = Len(rs)
    /\ \E p \in Reorderings(Len(rs)) :
         /\ \A k \in 1..Len(rs) : out[k] = rs[p[k]]
         /\ \A k, l \in 1..Len(rs) :
              k < l => \/ YearInt(out[k]) > YearInt(out[l])
                       \/ YearInt(out[k]) = YearInt(out[l]) /\ p[k] < p[l]

\* the rendered lines are those of the sorted rows, in their order
RenderedInOrder ==
    fpc = "rendered" =>
        /\ Len(fout.lines) = Len(fout.sorted)
        /\ \A k \in 1..Len(fout.lines) : fout.lines[k] = RenderRow(fout.sorted[k])

\* C6 as claimed: a stable descending sort by year in which a row with an
\* empty or unparsable year comes after every row with a parsable year.
C6_UnparsableAfterEveryParsable ==
    fpc \in {"render", "rendered"} =>
        /\ StablyDescending(fin, fout.sorted)
        /\ RenderedInOrder
        /\ \A k, l \in 1..Len(fout.sorted) :
             (Unparsable(fout.sorted[k]) /\ ~Unparsable(fout.sorted[l])) => l < k

\* C6 as amended: a stable descending sort by year in which a row with an
\* empty or unparsable year counts as 0, and so comes after every row
\* whose year is a positive integer.
C6_StableDescendingByYear ==
    fpc \in {"render", "rendered"} =>
        /\ StablyDescending(fin, fout.sorted)
        /\ RenderedInOrder
        /\ \A k, l \in 1..Len(fout.sorted) :
             (Unparsable(fout.sorted[k]) /\ ~Unparsable(fout.sorted[l])
                /\ YearInt(fout.sorted[l]) > 0) => l < k

\* three rows, two of them with the same year and different titles, and
\* one with an unparsable year given first
C6_Witness ==
    /\ fpc = "rendered"
    /\ Len(fin) = 3
    /\ Unparsable(fin[1])
    /\ fin[2].year = fin[3].year /\ fin[2].title # fin[3].title
    /\ YearInt(fin[2]) > 0
    /\ fout.sorted = <<fin[2], fin[3], fin[1]>>

====
